---- MODULE Spec2Model ----
(***************************************************************************)
(* Model of the ms-payment service: the payments table (MySQLStore), the   *)
(* Redis OTP lock, the Kafka producer, the order.created consumer and the  *)
(* PaymentService operations built on them.                                *)
(*                                                                         *)
(* Every service call is one action.  The outcome of the infrastructure   *)
(* during a call is an input of the call, the record env:                  *)
(*   env.db    - the MySQL statement executes (FALSE: Exec returns an error)*)
(*   env.redis - the Redis command executes (FALSE: the client returns err) *)
(*   env.bus   - the Kafka broker accepts SendMessage                      *)
(* The variable resp is the record of the last completed call: what it was *)
(* asked, what it read, what it returned and which events it handed to the *)
(* producer.                                                               *)
(***************************************************************************)
EXTENDS Integers, Sequences, FiniteSets, TLC

\* ------------------------------------------------------------------ bounds
\* number of service calls explored in one behaviour
MaxCalls == 3
\* number of calls explored in one behaviour of the upsert service alone
MaxUpserts == 2
\* number of message deliveries to the consumer explored in one behaviour
MaxDeliveries == 3
\* events handed to the producer in a behaviour of the producer alone
MaxPublishes == 2
\* calls and deliveries in a behaviour of the settlement path
MaxSettles == 2
\* calls in a behaviour of overlapping refunds
MaxRaces == 3

\* ----------------------------------------------------------------- domains
StatusPending == "pending"
StatusSuccess == "success"
StatusFailed == "failed"
StatusRefunded == "refunded"
StatusCancelled == "cancelled"

PaymentStatus ==
  {StatusPending, StatusSuccess, StatusFailed, StatusRefunded, StatusCancelled}

ErrPaymentNotFound == "payment not found"
ErrInvalidRefundAmount == "invalid refund amount"
ErrPaymentNotRefundable == "payment not refundable"

\* order identifiers the callers and the upstream stream use
OrderIDs == {"o1", "o2"}
\* values crypto/rand can make GenerateOTP return (two of the 10^6)
OTPs == {"482913", "100200"}
\* a payment identifier supplied by a client that the service never generated
ClientPaymentID == "pay_client"
\* prices, in cents
Prices == {50}
RefundAmounts == {<<>>, <<0>>, <<20>>, <<50>>, <<60>>}

\* the nil *models.Payment
NilPayment ==
  [nil |-> TRUE, PaymentID |-> "", OrderID |-> "", Status |-> "", Price |-> 0, URL |-> ""]

Payment(id, orderID, status, price, url) ==
  [nil |-> FALSE, PaymentID |-> id, OrderID |-> orderID, Status |-> status,
   Price |-> price, URL |-> url]

MinOf(S) == CHOOSE i \in S : \A j \in S : i <= j

\* ------------------------------------------------------------ MySQLStore
\* The payments table is the sequence of its rows in insertion order;
\* payment_id is the primary key, order_id is indexed but not unique.

\* an INSERT that reports success and stores nothing
SavePayment_Lost(tbl, payment, db) == [err |-> FALSE, payments |-> tbl]

\* INSERT INTO payments ...: fails on a duplicate primary key
SavePayment(tbl, payment, db) ==
  IF ~db \/ \E i \in 1..Len(tbl) : tbl[i].PaymentID = payment.PaymentID
  THEN [err |-> TRUE, payments |-> tbl]
  ELSE [err |-> FALSE, payments |-> Append(tbl, payment)]

\* SELECT ... WHERE payment_id = ?
GetPayment(tbl, id) ==
  LET idx == {i \in 1..Len(tbl) : tbl[i].PaymentID = id}
  IN IF idx = {} THEN [err |-> TRUE, payment |-> NilPayment]
     ELSE [err |-> FALSE, payment |-> tbl[MinOf(idx)]]

\* an UPDATE that reports success and changes no row
UpdatePayment_Lost(tbl, payment, db) == [err |-> FALSE, payments |-> tbl]

\* UPDATE payments SET order_id, status, price, url WHERE payment_id = ?
\* (no row matched is not an error)
UpdatePayment(tbl, payment, db) ==
  IF ~db THEN [err |-> TRUE, payments |-> tbl]
  ELSE [err |-> FALSE,
        payments |-> [i \in 1..Len(tbl) |->
                        IF tbl[i].PaymentID = payment.PaymentID
                        THEN payment ELSE tbl[i]]]

\* a lookup by order that never finds a row
GetTicketByOrderID_Miss(tbl, orderID) == [err |-> TRUE, payment |-> NilPayment]

\* SELECT ... WHERE order_id = ?  (QueryRow: the first matching row)
GetTicketByOrderID(tbl, orderID) ==
  LET idx == {i \in 1..Len(tbl) : tbl[i].OrderID = orderID}
  IN IF idx = {} THEN [err |-> TRUE, payment |-> NilPayment]
     ELSE [err |-> FALSE, payment |-> tbl[MinOf(idx)]]

\* number of rows of the table with this order_id
RowsOfOrder(tbl, orderID) ==
  Cardinality({i \in 1..Len(tbl) : tbl[i].OrderID = orderID})

\* ------------------------------------------------------------ Redis lock
\* The lock store is the function from the keys that exist to their values.
NoLocks == [k \in {} |-> ""]

LockKey(orderID) == "OTP_lock:" \o orderID

DelKey(l, key) == [k \in DOMAIN l \ {key} |-> l[k]]

\* Set(key, otp, lockTTL), without NX: the value is overwritten
AddOTP_Set(l, otp, orderID, redis) ==
  LET key == LockKey(orderID)
  IN IF ~redis THEN [ok |-> FALSE, err |-> TRUE, locks |-> l]
     ELSE [ok |-> TRUE, err |-> FALSE,
           locks |-> [k \in DOMAIN l \cup {key} |-> IF k = key THEN otp ELSE l[k]]]

AddOTP_Swallow(l, otp, orderID, redis) ==
  LET key == LockKey(orderID)
  IN IF ~redis THEN [ok |-> TRUE, err |-> FALSE, locks |-> l]
     ELSE IF key \in DOMAIN l THEN [ok |-> FALSE, err |-> FALSE, locks |-> l]
     ELSE [ok |-> TRUE, err |-> FALSE, locks |-> (key :> otp) @@ l]

\* SetNX(key, otp, lockTTL)
AddOTP(l, otp, orderID, redis) ==
  LET key == LockKey(orderID)
  IN IF ~redis THEN [ok |-> FALSE, err |-> TRUE, locks |-> l]
     ELSE IF key \in DOMAIN l THEN [ok |-> FALSE, err |-> FALSE, locks |-> l]
     ELSE [ok |-> TRUE, err |-> FALSE, locks |-> (key :> otp) @@ l]

\* Get(key): "" with no error when the key does not exist
GetOTP(l, orderID, redis) ==
  LET key == LockKey(orderID)
  IN IF ~redis THEN [val |-> "", err |-> TRUE]
     ELSE IF key \notin DOMAIN l THEN [val |-> "", err |-> FALSE]
     ELSE [val |-> l[key], err |-> FALSE]

\* Get(key), then Del(key) only if the stored value equals orderID
RemoveOTP_Always(l, orderID, redis) ==
  LET key == LockKey(orderID)
  IN IF ~redis THEN l
     ELSE IF key \notin DOMAIN l THEN l
     ELSE DelKey(l, key)

RemoveOTP(l, orderID, redis) ==
  LET key == LockKey(orderID)
  IN IF ~redis THEN l
     ELSE IF key \notin DOMAIN l THEN l
     ELSE IF l[key] = orderID THEN DelKey(l, key)
     ELSE l

\* const lockTTL = 5 * time.Minute
lockTTL == 5

\* expiry times of a store whose every command renews the time of every key
TTLAfter_Refresh(t, l) == [k \in DOMAIN l |-> lockTTL]

\* the expiry times once the store went from some keys to the keys of l: a
\* key SetNX created lives lockTTL, a key that stayed keeps its time
TTLAfter(t, l) ==
  [k \in DOMAIN l |-> IF k \in DOMAIN t THEN t[k] ELSE lockTTL]

\* --------------------------------------------------------- Kafka producer
\* a router that knows the general topic only
getTopicForEvent_General(eventType) == "payment-events"

\* Producer.getTopicForEvent
getTopicForEvent(eventType) ==
  CASE eventType = "payment.success" -> "payment-success"
    [] eventType = "payment.failed" -> "payment-failed"
    [] eventType = "payment.refunded" -> "payment-refunded"
    [] OTHER -> "payment-events"

\* SendMessage(topic, key = PaymentID, value): log is the sequence of the
\* messages the brokers accepted
PublishPaymentEvent(log, event, bus) ==
  IF ~bus THEN [err |-> TRUE, published |-> log]
  ELSE [err |-> FALSE,
        published |-> Append(log, [Topic |-> getTopicForEvent(event.Type),
                                   Key |-> event.PaymentID,
                                   Type |-> event.Type,
                                   PaymentID |-> event.PaymentID])]

\* a publishPaymentEvent that hands nothing to the producer
publishPaymentEvent_Silent(log, eventType, payment, bus) ==
  [panic |-> FALSE, published |-> log, events |-> <<>>]

\* PaymentService.publishPaymentEvent: builds the event from the payment and
\* swallows the producer's error.  A nil payment is dereferenced
\* (payment.PaymentID): the goroutine panics.
publishPaymentEvent(log, eventType, payment, bus) ==
  IF payment.nil THEN [panic |-> TRUE, published |-> log, events |-> <<>>]
  ELSE LET event == [Type |-> eventType, PaymentID |-> payment.PaymentID]
       IN [panic |-> FALSE,
           published |-> PublishPaymentEvent(log, event, bus).published,
           events |-> <<event>>]

\* ------------------------------------------------------------------ state
VARIABLES
  payments,   \* the payments table
  locks,      \* the Redis lock store
  published,  \* the messages accepted by the Kafka brokers, in order
  tasks,      \* the detached processPaymentAsync goroutines not yet run
  nextID,     \* entropy of GenerateUUID / the clock of "pay_%d"
  ncalls,     \* number of calls made so far
  resp,       \* record of the last completed call
  issuing,    \* per caller: the ProcessPayment call waiting on AddOTP, if any
  holders,    \* history: per order, the number of AddOTP calls that returned true
              \* since the order's key was last absent
  verified,   \* history: the <<orderID, code>> for which a VerifyOTP call
              \* has returned since the order's last successful AddOTP
  ttl,        \* per key of the lock store: the minutes left before it expires
  consumed,   \* history: the messages of the partition claim taken so far, in
              \* offset order, each with what ConsumeClaim did with it
  delivered,  \* the published messages the consumers of the payment topics
              \* have received, in the order they received them
  provider,   \* history: the Stripe API calls made so far, in order
  up,         \* the service process is running (log.Fatal has not ended it)
  refunding   \* per caller: the RefundPayment call between its read of the
              \* payment and its UPDATE, if any

vars ==
  <<payments, locks, published, tasks, nextID, ncalls, resp, issuing, holders,
    verified, ttl, consumed, delivered, provider, up, refunding>>

\* concurrent callers of the issuing ProcessPayment
NumCallers == 2
Callers == 1..NumCallers
Idle ==
  [busy |-> FALSE, OrderID |-> "", PaymentID |-> "", Price |-> 0, otp |-> "",
   free |-> FALSE]

NoRefund == [busy |-> FALSE, payment |-> NilPayment, amount |-> <<>>]

Envs == [db : {TRUE}, redis : BOOLEAN, bus : BOOLEAN, smtp : {TRUE}]

NoResp ==
  [op |-> "", OrderID |-> "", PaymentID |-> "", otp |-> "", amount |-> <<>>,
   status |-> "", found |-> FALSE, read |-> "", locked |-> "", free |-> FALSE,
   ret |-> FALSE, err |-> "", panic |-> FALSE, events |-> <<>>,
   env |-> [db |-> TRUE, redis |-> TRUE, bus |-> TRUE, smtp |-> TRUE],
   token |-> "", card |-> FALSE, http |-> 0, mailed |-> FALSE,
   prov |-> [pm |-> "", pi |-> "", charge |-> ""]]

Init ==
  /\ payments = <<>>
  /\ locks = NoLocks
  /\ published = <<>>
  /\ tasks = {}
  /\ nextID = 1
  /\ ncalls = 0
  /\ resp = NoResp
  /\ issuing = [c \in Callers |-> Idle]
  /\ holders = [o \in OrderIDs |-> 0]
  /\ verified = {}
  /\ ttl = NoLocks
  /\ consumed = <<>>
  /\ delivered = <<>>
  /\ provider = <<>>
  /\ up = TRUE
  /\ refunding = [c \in Callers |-> NoRefund]

\* utils.GenerateUUID()
GenerateUUID(n) == "uuid-" \o ToString(n)
\* fmt.Sprintf("pay_%d", time.Now().UnixNano())
GeneratePayID(n) == "pay_" \o ToString(n)

\* ---------------------------------------------------------- inputs
\* payment identifiers a caller can name: the stored ones, a foreign one, none
KnownIDs == {payments[i].PaymentID : i \in 1..Len(payments)} \cup {ClientPaymentID}

PaymentRequests ==
  [PaymentID : KnownIDs \cup {""}, OrderID : OrderIDs,
   Status : PaymentStatus \cup {""}, Price : Prices \cup {0}, URL : {"", "https://r"}]

\* the payloads of order.created messages: a well-formed Order, bytes that
\* are not JSON, and JSON that does not unmarshal into an Order
Orders == [OrderID : OrderIDs, Price : Prices, Status : {"created"}]

Messages ==
  [kind : {"order"}, order : Orders]
    \cup [kind : {"invalid_json", "not_an_order"},
          order : {[OrderID |-> "", Price |-> 0, Status |-> ""]}]

\* the messages of a claim whose orders differ in price too
OrderPrices == {50, 120}

IngestMessages ==
  Messages \cup [kind : {"order"},
                 order : [OrderID : OrderIDs, Price : OrderPrices, Status : {"created"}]]

\* a checkout URL that names no order
CheckoutURL_Fixed(orderID) == "https://payment.gateway.com/checkout/"

\* fmt.Sprintf("https://payment.gateway.com/checkout/%s", order.OrderID)
CheckoutURL(orderID) == "https://payment.gateway.com/checkout/" \o orderID

\* a call is made: the frame every handler shares
Call ==
  /\ up
  /\ ncalls < MaxCalls
  /\ ncalls' = ncalls + 1

\* a message of the claim is delivered
Deliver ==
  /\ up
  /\ ncalls < MaxDeliveries
  /\ ncalls' = ncalls + 1

\* ------------------------------------------------- PaymentService (upsert)
\* a lookup that never finds a payment
Resolve_None(tbl, req) == NilPayment

\* the payment ProcessPayment works on: the one with req.PaymentID when the
\* request names one and it exists, else the one of req.OrderID, else nil
Resolve(tbl, req) ==
  LET byID == IF req.PaymentID # "" THEN GetPayment(tbl, req.PaymentID)
              ELSE [err |-> TRUE, payment |-> NilPayment]
      byOrder == GetTicketByOrderID(tbl, req.OrderID)
  IN IF ~byID.payment.nil THEN byID.payment ELSE byOrder.payment

\* an event choice that announces every status as a success
EventForStatus_Success(status) == "payment.success"

\* the event ProcessPayment publishes for a status ("": none)
EventForStatus(status) ==
  IF status = StatusSuccess THEN "payment.success"
  ELSE IF status = StatusFailed THEN "payment.failed"
  ELSE ""

\* ProcessPayment on a table, a broker log and the clock: resolve, then
\* update or create, then publish
ProcessPaymentOn(tbl, log, n, req, env) ==
  LET existingPayment == Resolve(tbl, req)
  IN
  IF ~existingPayment.nil
  THEN LET updated == [existingPayment EXCEPT
                         !.Status = req.Status,
                         !.Price = IF req.Price > 0 THEN req.Price ELSE @,
                         !.URL = IF req.URL # "" THEN req.URL ELSE @]
           upd == UpdatePayment(tbl, updated, env.db)
           type == EventForStatus(updated.Status)
           pub == publishPaymentEvent(log, type, updated, env.bus)
       IN IF upd.err
          THEN [found |-> TRUE, read |-> existingPayment.Status,
                PaymentID |-> existingPayment.PaymentID,
                err |-> "failed to update payment", payment |-> NilPayment,
                payments |-> tbl, published |-> log, nextID |-> n,
                events |-> <<>>]
          ELSE [found |-> TRUE, read |-> existingPayment.Status,
                PaymentID |-> existingPayment.PaymentID,
                err |-> "", payment |-> updated,
                payments |-> upd.payments,
                published |-> IF type = "" THEN log ELSE pub.published,
                nextID |-> n,
                events |-> IF type = "" THEN <<>> ELSE pub.events]
  ELSE LET paymentID == IF req.PaymentID # "" THEN req.PaymentID
                        ELSE GeneratePayID(n)
           payment == Payment(paymentID, req.OrderID, req.Status,
                              IF req.Price > 0 THEN req.Price ELSE 0,
                              req.URL)
           sav == SavePayment(tbl, payment, env.db)
           type == EventForStatus(payment.Status)
           pub == publishPaymentEvent(log, type, payment, env.bus)
           clock == IF req.PaymentID # "" THEN n ELSE n + 1
       IN IF sav.err
          THEN [found |-> FALSE, read |-> "", PaymentID |-> paymentID,
                err |-> "failed to save payment", payment |-> NilPayment,
                payments |-> tbl, published |-> log, nextID |-> clock,
                events |-> <<>>]
          ELSE [found |-> FALSE, read |-> "", PaymentID |-> paymentID,
                err |-> "", payment |-> payment,
                payments |-> sav.payments,
                published |-> IF type = "" THEN log ELSE pub.published,
                nextID |-> clock,
                events |-> IF type = "" THEN <<>> ELSE pub.events]

\* ProcessPayment: resolve by PaymentID, else by OrderID; update or create
ProcessPayment(req, env) ==
  LET r == ProcessPaymentOn(payments, published, nextID, req, env)
  IN
  /\ Call
  /\ payments' = r.payments
  /\ published' = r.published
  /\ nextID' = r.nextID
  /\ resp' = [NoResp EXCEPT !.op = "ProcessPayment", !.OrderID = req.OrderID,
                            !.status = req.Status, !.env = env,
                            !.found = r.found, !.read = r.read,
                            !.PaymentID = r.PaymentID, !.err = r.err,
                            !.events = r.events]
  /\ UNCHANGED <<locks, ttl, tasks, issuing, holders, verified, consumed, delivered, provider, up, refunding>>

\* a status check that lets every status through
NotRefundable_Never(payment) == FALSE

\* payment.Status != models.StatusSuccess
NotRefundable(payment) == payment.Status # StatusSuccess

\* an amount check that forgets the lower bound
InvalidRefundAmount_NoFloor(amount, payment) ==
  amount # <<>> /\ amount[1] > payment.Price

\* amount != nil && (*amount <= 0 || *amount > payment.Price)
InvalidRefundAmount(amount, payment) ==
  amount # <<>> /\ (amount[1] <= 0 \/ amount[1] > payment.Price)

\* RefundPayment(paymentID, amount, reason); amount is <<>> (nil) or <<a>>
RefundPayment(paymentID, amount, env) ==
  LET got == GetPayment(payments, paymentID)
      payment == got.payment
      base == [NoResp EXCEPT !.op = "RefundPayment", !.PaymentID = paymentID,
                             !.amount = amount, !.env = env,
                             !.found = ~got.err, !.read = payment.Status,
                             !.OrderID = payment.OrderID]
      refunded == [payment EXCEPT !.Status = StatusRefunded]
      upd == UpdatePayment(payments, refunded, env.db)
      pub == publishPaymentEvent(published, "payment.refunded", refunded, env.bus)
  IN
  /\ Call
  /\ IF got.err
     THEN /\ resp' = [base EXCEPT !.err = ErrPaymentNotFound]
          /\ UNCHANGED <<payments, published>>
     ELSE IF NotRefundable(payment)
     THEN /\ resp' = [base EXCEPT !.err = ErrPaymentNotRefundable]
          /\ UNCHANGED <<payments, published>>
     ELSE IF InvalidRefundAmount(amount, payment)
     THEN /\ resp' = [base EXCEPT !.err = ErrInvalidRefundAmount]
          /\ UNCHANGED <<payments, published>>
     ELSE IF upd.err
     THEN /\ resp' = [base EXCEPT !.err = "failed to save refund"]
          /\ UNCHANGED <<payments, published>>
     ELSE /\ payments' = upd.payments
          /\ published' = pub.published
          /\ resp' = [base EXCEPT !.events = pub.events,
                                  !.status = refunded.Status]
  /\ UNCHANGED <<locks, ttl, tasks, nextID, issuing, holders, verified, consumed, delivered, provider, up, refunding>>

\* RefundPayment by caller c in two steps, so that calls overlap: from the
\* GetPayment to the checks of status and amount ...
BeginRefundPayment(c, paymentID, amount) ==
  LET got == GetPayment(payments, paymentID)
      payment == got.payment
      base == [NoResp EXCEPT !.op = "RefundPayment", !.PaymentID = paymentID,
                             !.amount = amount, !.found = ~got.err,
                             !.read = payment.Status,
                             !.OrderID = payment.OrderID]
  IN
  /\ up
  /\ ncalls < MaxRaces
  /\ ncalls' = ncalls + 1
  /\ ~refunding[c].busy
  /\ IF got.err
     THEN /\ resp' = [base EXCEPT !.err = ErrPaymentNotFound]
          /\ UNCHANGED refunding
     ELSE IF NotRefundable(payment)
     THEN /\ resp' = [base EXCEPT !.err = ErrPaymentNotRefundable]
          /\ UNCHANGED refunding
     ELSE IF InvalidRefundAmount(amount, payment)
     THEN /\ resp' = [base EXCEPT !.err = ErrInvalidRefundAmount]
          /\ UNCHANGED refunding
     ELSE /\ refunding' = [refunding EXCEPT ![c] =
                             [busy |-> TRUE, payment |-> payment, amount |-> amount]]
          /\ UNCHANGED resp
  /\ UNCHANGED <<payments, locks, ttl, published, tasks, nextID, issuing, holders,
                 verified, consumed, delivered, provider, up>>

\* ... and from the UPDATE of the payment it read on
FinishRefundPayment(c, env) ==
  LET payment == refunding[c].payment
      refunded == [payment EXCEPT !.Status = StatusRefunded]
      upd == UpdatePayment(payments, refunded, env.db)
      pub == publishPaymentEvent(published, "payment.refunded", refunded, env.bus)
      base == [NoResp EXCEPT !.op = "RefundPayment",
                             !.PaymentID = payment.PaymentID,
                             !.amount = refunding[c].amount, !.env = env,
                             !.found = TRUE, !.read = payment.Status,
                             !.OrderID = payment.OrderID]
  IN
  /\ up
  /\ refunding[c].busy
  /\ refunding' = [refunding EXCEPT ![c] = NoRefund]
  /\ IF upd.err
     THEN /\ resp' = [base EXCEPT !.err = "failed to save refund"]
          /\ UNCHANGED <<payments, published>>
     ELSE /\ payments' = upd.payments
          /\ published' = pub.published
          /\ resp' = [base EXCEPT !.events = pub.events,
                                  !.status = refunded.Status]
  /\ UNCHANGED <<locks, ttl, tasks, nextID, ncalls, issuing, holders, verified,
                 consumed, delivered, provider, up>>

\* UpdatePaymentStatus(paymentID, status)
UpdatePaymentStatus(paymentID, status, env) ==
  LET got == GetPayment(payments, paymentID)
      payment == got.payment
      base == [NoResp EXCEPT !.op = "UpdatePaymentStatus", !.PaymentID = paymentID,
                             !.status = status, !.env = env,
                             !.found = ~got.err, !.read = payment.Status,
                             !.OrderID = payment.OrderID]
      upd == UpdatePayment(payments, [payment EXCEPT !.Status = status], env.db)
  IN
  /\ Call
  /\ IF got.err
     THEN /\ resp' = [base EXCEPT !.err = "failed to get payment"]
          /\ UNCHANGED payments
     ELSE IF upd.err
     THEN /\ resp' = [base EXCEPT !.err = "failed to update payment status"]
          /\ UNCHANGED payments
     ELSE /\ payments' = upd.payments
          /\ resp' = base
  /\ UNCHANGED <<locks, ttl, published, tasks, nextID, issuing, holders, verified,
               consumed, delivered, provider, up, refunding>>

\* ------------------------------------------------------ order ingestion
\* PaymentService.ProcessOrderEvent on a table, a broker log and the id
\* entropy: skip when a payment of the order exists, else create it pending
\* and publish payment.created
ProcessOrderEventOn(tbl, log, n, order, env) ==
  LET got == GetTicketByOrderID(tbl, order.OrderID)
      payment == Payment(GenerateUUID(n), order.OrderID, StatusPending,
                         order.Price, CheckoutURL(order.OrderID))
      sav == SavePayment(tbl, payment, env.db)
      pub == publishPaymentEvent(log, "payment.created", payment, env.bus)
  IN IF ~got.err /\ ~got.payment.nil
     THEN [err |-> "", found |-> TRUE, PaymentID |-> got.payment.PaymentID,
           payments |-> tbl, published |-> log, nextID |-> n, events |-> <<>>]
     ELSE IF sav.err
     THEN [err |-> "failed to save payment", found |-> FALSE,
           PaymentID |-> payment.PaymentID,
           payments |-> tbl, published |-> log, nextID |-> n + 1, events |-> <<>>]
     ELSE [err |-> "", found |-> FALSE, PaymentID |-> payment.PaymentID,
           payments |-> sav.payments, published |-> pub.published,
           nextID |-> n + 1, events |-> pub.events]

\* the exported method called on its own
ProcessOrderEvent(order, env) ==
  LET r == ProcessOrderEventOn(payments, published, nextID, order, env)
  IN
  /\ Call
  /\ payments' = r.payments
  /\ published' = r.published
  /\ nextID' = r.nextID
  /\ resp' = [NoResp EXCEPT !.op = "ProcessOrderEvent", !.OrderID = order.OrderID,
                            !.PaymentID = r.PaymentID, !.found = r.found,
                            !.err = r.err, !.events = r.events, !.env = env]
  /\ UNCHANGED <<locks, ttl, tasks, issuing, holders, verified, consumed, delivered, provider, up, refunding>>

\* a check that lets every payload through
WellFormed_Any(message) == TRUE

\* json.Valid(message.Value) and json.Unmarshal(message.Value, &order) == nil
WellFormed(message) == message.kind = "order"

\* what became of a message of the claim: whether its payment was inserted
\* and whether session.MarkMessage was called for it
Taken(message, saved, marked) ==
  [kind |-> message.kind, order |-> message.order, saved |-> saved,
   marked |-> marked]

\* One iteration of orderConsumerHandler.ConsumeClaim: a message of the
\* claim is delivered.  The handler is PaymentService.ProcessOrderEvent
\* (main.go).  resp.ret tells whether the message was marked.
ConsumeClaim(message, env) ==
  LET order == message.order
      payment == Payment(GenerateUUID(nextID), order.OrderID, StatusPending,
                         order.Price, CheckoutURL(order.OrderID))
      sav == SavePayment(payments, payment, env.db)
      h == ProcessOrderEventOn(sav.payments, published, nextID + 1, order, env)
      base == [NoResp EXCEPT !.op = "ConsumeClaim", !.OrderID = order.OrderID,
                             !.status = message.kind, !.env = env]
  IN
  /\ Deliver
  /\ IF ~WellFormed(message)
     THEN /\ resp' = [base EXCEPT !.ret = TRUE]
          /\ consumed' = Append(consumed, Taken(message, FALSE, TRUE))
          /\ UNCHANGED <<payments, published, nextID>>
     ELSE IF sav.err
     THEN /\ resp' = [base EXCEPT !.ret = FALSE, !.err = "failed to save payment",
                                  !.PaymentID = payment.PaymentID]
          /\ nextID' = nextID + 1
          /\ consumed' = Append(consumed, Taken(message, FALSE, FALSE))
          /\ UNCHANGED <<payments, published>>
     ELSE /\ payments' = h.payments
          /\ consumed' = Append(consumed, Taken(message, TRUE, TRUE))
          /\ published' = h.published
          /\ nextID' = h.nextID
          /\ resp' = [base EXCEPT !.ret = TRUE, !.PaymentID = payment.PaymentID,
                                  !.found = h.found, !.err = h.err,
                                  !.events = h.events]
  /\ UNCHANGED <<locks, ttl, tasks, issuing, holders, verified, delivered, provider, up, refunding>>

\* ------------------------------------------------ OTP issuance (payment.go)
IssueRequests == [PaymentID : KnownIDs \cup {""}, OrderID : OrderIDs, Price : Prices]

\* history: an order whose key is absent has no holder
HoldersAfter(h, l) ==
  [o \in OrderIDs |-> IF LockKey(o) \in DOMAIN l THEN h[o] ELSE 0]

\* otp.SendEmailOTP: smtp.SendMail, and log.Fatal (os.Exit) when it fails
SendEmailOTP(smtp) == [sent |-> smtp, fatal |-> ~smtp]

\* ProcessPayment of payment.go from SendEmailOTP on: the code otp was
\* generated; mail it, lock, insert the pending payment, start the
\* detached processPaymentAsync.  free tells whether the order's key was absent
\* when the call started.
Issue(req, otp, free, env) ==
  LET add == AddOTP(locks, otp, req.OrderID, env.redis)
      payment == Payment(req.PaymentID, req.OrderID, StatusPending, req.Price, "")
      sav == SavePayment(payments, payment, env.db)
      mail == SendEmailOTP(env.smtp)
      base == [NoResp EXCEPT !.op = "ProcessPaymentOTP", !.OrderID = req.OrderID,
                             !.PaymentID = req.PaymentID, !.otp = otp,
                             !.env = env, !.ret = add.ok, !.free = free,
                             !.mailed = mail.sent]
  IN
  IF mail.fatal
  THEN \* the process exits inside SendEmailOTP
       /\ up' = FALSE
       /\ resp' = [base EXCEPT !.ret = FALSE, !.err = "Failed to send email"]
       /\ UNCHANGED <<payments, locks, ttl, published, tasks, nextID, holders,
                      verified, consumed, delivered, provider, refunding>>
  ELSE
  /\ up' = up
  /\ locks' = add.locks
  /\ holders' = IF add.ok THEN [holders EXCEPT ![req.OrderID] = @ + 1] ELSE holders
  /\ verified' = IF add.ok THEN {v \in verified : v[1] # req.OrderID} ELSE verified
  /\ IF add.err
     THEN /\ resp' = [base EXCEPT !.err = "redis error"]
          /\ UNCHANGED <<payments, tasks>>
     ELSE IF ~add.ok
     THEN /\ resp' = [base EXCEPT !.err = "OTP already locked"]
          /\ UNCHANGED <<payments, tasks>>
     ELSE IF sav.err
     THEN /\ resp' = [base EXCEPT !.err = "failed to save payment"]
          /\ UNCHANGED <<payments, tasks>>
     ELSE /\ payments' = sav.payments
          /\ tasks' = tasks \cup {payment}
          /\ resp' = base
  /\ ttl' = TTLAfter(ttl, locks')
  /\ UNCHANGED <<published, nextID, consumed, delivered, provider, refunding>>

\* the whole call in one step
ProcessPaymentOTP(req, otp, env) ==
  /\ Call
  /\ Issue(req, otp, LockKey(req.OrderID) \notin DOMAIN locks, env)
  /\ UNCHANGED issuing

\* the same call by caller c in two steps, so that calls overlap: up to the
\* AddOTP round trip ...
BeginProcessPayment(c, req, otp) ==
  /\ Call
  /\ ~issuing[c].busy
  /\ issuing' = [issuing EXCEPT ![c] =
                   [busy |-> TRUE, OrderID |-> req.OrderID,
                    PaymentID |-> req.PaymentID, Price |-> req.Price, otp |-> otp,
                    free |-> LockKey(req.OrderID) \notin DOMAIN locks]]
  /\ UNCHANGED <<payments, locks, ttl, published, tasks, nextID, resp, holders,
               verified, consumed, delivered, provider, up, refunding>>

\* ... and from it on
FinishProcessPayment(c, env) ==
  /\ issuing[c].busy
  /\ Issue([PaymentID |-> issuing[c].PaymentID, OrderID |-> issuing[c].OrderID,
            Price |-> issuing[c].Price], issuing[c].otp, issuing[c].free, env)
  /\ issuing' = [issuing EXCEPT ![c] = Idle]
  /\ UNCHANGED ncalls

\* the detached goroutine; succeed is shouldPaymentSucceed's random draw
processPaymentAsync(payment, succeed, env) ==
  LET settled == [payment EXCEPT !.Status = IF succeed THEN StatusSuccess
                                            ELSE StatusFailed]
      sav == SavePayment(payments, settled, env.db)
      pub == publishPaymentEvent(published, "payment.failed", settled, env.bus)
  IN
  /\ up
  /\ payment \in tasks
  /\ tasks' = tasks \ {payment}
  /\ payments' = sav.payments
  /\ published' = IF succeed THEN published ELSE pub.published
  /\ resp' = [NoResp EXCEPT !.op = "processPaymentAsync",
                            !.OrderID = payment.OrderID,
                            !.PaymentID = payment.PaymentID,
                            !.status = settled.Status, !.env = env,
                            !.err = IF sav.err THEN "failed to save payment" ELSE "",
                            !.events = IF succeed THEN <<>> ELSE pub.events]
  /\ UNCHANGED <<locks, ttl, nextID, ncalls, issuing, holders, verified, consumed, delivered, provider, up, refunding>>

\* lockTTL elapsed: Redis drops the key
ExpireLock(orderID) ==
  /\ LockKey(orderID) \in DOMAIN locks
  /\ locks' = DelKey(locks, LockKey(orderID))
  /\ holders' = HoldersAfter(holders, locks')
  /\ ttl' = TTLAfter(ttl, locks')
  /\ UNCHANGED <<payments, published, tasks, nextID, ncalls, resp, issuing, verified,
               consumed, delivered, provider, up, refunding>>

\* a minute passes: every key is a minute closer to its expiry, and Redis
\* drops the keys whose time is up
Tick ==
  /\ DOMAIN locks # {}
  /\ locks' = [k \in {q \in DOMAIN locks : ttl[q] > 1} |-> locks[k]]
  /\ ttl' = [k \in DOMAIN locks' |-> ttl[k] - 1]
  /\ holders' = HoldersAfter(holders, locks')
  /\ UNCHANGED <<payments, published, tasks, nextID, ncalls, resp, issuing, verified,
               consumed, delivered, provider, up, refunding>>

\* ------------------------------------------------------- OTP verification
\* a failure handler that leaves the payment as it is
handleOTPFail_Keep(tbl, orderID, db) == tbl

handleOTPFail(tbl, orderID, db) ==
  LET got == GetTicketByOrderID(tbl, orderID)
  IN IF ~got.err /\ ~got.payment.nil
     THEN UpdatePayment(tbl, [got.payment EXCEPT !.Status = StatusFailed], db).payments
     ELSE tbl

VerifyOTP(orderID, otp, env) ==
  LET got == GetTicketByOrderID(payments, orderID)
      payment == got.payment
      lock == GetOTP(locks, orderID, env.redis)
      succeeded == [payment EXCEPT !.Status = StatusSuccess]
      upd == UpdatePayment(payments, succeeded, env.db)
      match == ~lock.err /\ lock.val # "" /\ lock.val = otp
      base == [NoResp EXCEPT !.op = "VerifyOTP", !.OrderID = orderID, !.otp = otp,
                             !.env = env, !.found = ~got.err,
                             !.PaymentID = payment.PaymentID,
                             !.read = payment.Status]
      failed == publishPaymentEvent(published, "otp.failed", payment, env.bus)
      success == publishPaymentEvent(published, "otp.success", succeeded, env.bus)
  IN
  /\ Call
  /\ IF got.err
     THEN \* publishPaymentEvent("otp.failed", nil) panics
          /\ resp' = [base EXCEPT !.panic = failed.panic]
          /\ UNCHANGED <<payments, published, locks, ttl, holders, verified>>
     ELSE /\ IF match /\ ~upd.err
             THEN /\ payments' = upd.payments
                  /\ published' = success.published
                  /\ resp' = [base EXCEPT !.locked = lock.val, !.ret = TRUE,
                                          !.events = success.events]
             ELSE /\ payments' = handleOTPFail(payments, orderID, env.db)
                  /\ published' = failed.published
                  /\ resp' = [base EXCEPT !.locked = lock.val, !.ret = FALSE,
                                          !.err = IF lock.err THEN "redis error"
                                                  ELSE "",
                                          !.events = failed.events]
          /\ locks' = RemoveOTP(locks, orderID, env.redis)
          /\ ttl' = TTLAfter(ttl, locks')
          /\ holders' = HoldersAfter(holders, locks')
          /\ verified' = verified \cup {<<orderID, otp>>}
  /\ UNCHANGED <<tasks, nextID, issuing, consumed, delivered, provider, up, refunding>>

\* ------------------------------------------------- settlement (Stripe)
ErrStripeAPIError == "stripe API error"

\* what the provider answers to the calls of one settlement, were they made:
\* PaymentMethods.New (a method, or an error), PaymentIntents.New (an error,
\* or an intent in a status), Charges.Get for the intent's latest charge
\* (no charge, an error, a receipt URL)
ProviderAnswers ==
  [pm : {"ok", "card_error"},
   pi : {"api_connection_error", "succeeded", "processing", "requires_action",
         "requires_payment_method", "canceled"},
   charge : {"none", "error", "https://receipt"}]

\* a mapping that takes an intent awaiting the customer for a paid one
StripeStatus_ActionIsSuccess(piStatus) ==
  IF piStatus \in {"succeeded", "requires_action"} THEN StatusSuccess
  ELSE IF piStatus = "processing" THEN StatusPending
  ELSE StatusFailed

\* switch pi.Status
StripeStatus(piStatus) ==
  CASE piStatus = "succeeded" -> StatusSuccess
    [] piStatus = "processing" -> StatusPending
    [] piStatus = "requires_action" -> StatusPending
    [] OTHER -> StatusFailed

NoStripeResult ==
  [err |-> "", PaymentID |-> "", OrderID |-> "", Status |-> "",
   TransactionID |-> "", ReceiptURL |-> ""]

\* a charge that skips the validation of the request
StripeProcessPaymentOn_Unchecked(hist, req, prov) ==
  [result |-> [NoStripeResult EXCEPT !.PaymentID = req.PaymentID,
                                     !.OrderID = req.OrderID,
                                     !.Status = StripeStatus(prov.pi)],
   provider |-> Append(hist, "PaymentIntents.New")]

\* a charge that reports a provider error as a declined payment
StripeProcessPaymentOn_ErrorIsDecline(hist, req, prov) ==
  [result |-> [NoStripeResult EXCEPT !.PaymentID = req.PaymentID,
                                     !.OrderID = req.OrderID,
                                     !.Status = StatusFailed,
                                     !.TransactionID = "pi_0"],
   provider |-> Append(hist, "PaymentIntents.New")]

\* StripeService.ProcessPayment on the history of provider calls: req is
\* [PaymentID, OrderID, Amount, Token, Card] (Card: card details present)
StripeProcessPaymentOn(hist, req, prov) ==
  IF req.Amount <= 0
  THEN [result |-> [NoStripeResult EXCEPT !.err = "invalid payment amount"],
        provider |-> hist]
  ELSE IF req.Token = "" /\ ~req.Card
  THEN [result |-> [NoStripeResult EXCEPT
                      !.err = ErrStripeAPIError \o ": no payment method provided"],
        provider |-> hist]
  ELSE LET h1 == IF req.Token # "" THEN hist
                 ELSE Append(hist, "PaymentMethods.New")
           h2 == Append(h1, "PaymentIntents.New")
           h3 == IF prov.charge # "none" THEN Append(h2, "Charges.Get") ELSE h2
       IN IF req.Token = "" /\ prov.pm # "ok"
          THEN [result |-> [NoStripeResult EXCEPT
                              !.err = ErrStripeAPIError \o ": " \o prov.pm],
                provider |-> h1]
          ELSE IF prov.pi = "api_connection_error"
          THEN [result |-> [NoStripeResult EXCEPT
                              !.err = ErrStripeAPIError \o ": " \o prov.pi],
                provider |-> h2]
          ELSE [result |->
                  [err |-> "", PaymentID |-> req.PaymentID,
                   OrderID |-> req.OrderID, Status |-> StripeStatus(prov.pi),
                   TransactionID |-> "pi_" \o ToString(Len(h2)),
                   ReceiptURL |-> IF prov.charge \in {"none", "error"} THEN ""
                                  ELSE prov.charge],
                provider |-> h3]

\* the service called on its own
StripeServiceProcessPayment(req, prov) ==
  LET r == StripeProcessPaymentOn(provider, req, prov)
  IN
  /\ up
  /\ ncalls < MaxSettles
  /\ ncalls' = ncalls + 1
  /\ provider' = r.provider
  /\ resp' = [NoResp EXCEPT !.op = "StripeService.ProcessPayment",
                            !.OrderID = req.OrderID, !.PaymentID = req.PaymentID,
                            !.amount = <<req.Amount>>, !.token = req.Token,
                            !.card = req.Card, !.prov = prov,
                            !.err = r.result.err, !.status = r.result.Status]
  /\ UNCHANGED <<payments, locks, ttl, published, tasks, nextID, issuing, holders,
                 verified, consumed, delivered, up, refunding>>

\* StripeHandler.ProcessPayment (POST of a StripePaymentRequest).  The
\* binding requires payment_id, order_id and amount > 0; the amount and the
\* payment id are then replaced by those of the order's stored payment.
\* h.paymentService.ProcessPayment is the upsert ProcessPayment, whose
\* payments carry no transaction id: the record is always processed again.
StripeHandlerProcessPayment(req, prov, env) ==
  LET base == [NoResp EXCEPT !.op = "StripeHandler.ProcessPayment",
                             !.OrderID = req.OrderID, !.PaymentID = req.PaymentID,
                             !.amount = <<req.Amount>>, !.token = req.Token,
                             !.card = req.Card, !.prov = prov, !.env = env]
      got == GetTicketByOrderID(payments, req.OrderID)
      existingPayment == got.payment
      sreq == [req EXCEPT !.Amount = existingPayment.Price,
                          !.PaymentID = IF existingPayment.PaymentID # ""
                                        THEN existingPayment.PaymentID ELSE @]
      s == StripeProcessPaymentOn(provider, sreq, prov)
      result == s.result
      paymentReq == [PaymentID |-> sreq.PaymentID, OrderID |-> result.OrderID,
                     Status |-> result.Status, Price |-> 0,
                     URL |-> IF result.ReceiptURL # "" THEN result.ReceiptURL
                             ELSE CheckoutURL(result.OrderID)]
      r1 == ProcessPaymentOn(payments, published, nextID, paymentReq, env)
      paymentRecord == r1.payment
      again == result.TransactionID # "" /\ ~paymentRecord.nil
      updatedPaymentReq ==
        [PaymentID |-> paymentRecord.PaymentID, OrderID |-> paymentRecord.OrderID,
         Status |-> paymentRecord.Status, Price |-> 0, URL |-> paymentRecord.URL]
      r2 == IF again
            THEN ProcessPaymentOn(r1.payments, r1.published, r1.nextID,
                                  updatedPaymentReq, env)
            ELSE r1
      own == IF result.Status \in {StatusSuccess, StatusPending}
             THEN [Type |-> "payment.success", PaymentID |-> paymentRecord.PaymentID]
             ELSE [Type |-> "payment." \o result.Status,
                   PaymentID |-> result.TransactionID]
      pub == PublishPaymentEvent(r2.published, own, env.bus)
  IN
  /\ up
  /\ ncalls < MaxSettles
  /\ ncalls' = ncalls + 1
  /\ IF req.PaymentID = "" \/ req.OrderID = "" \/ req.Amount <= 0
        \/ (req.Token = "" /\ ~req.Card) \/ got.err
     THEN /\ resp' = [base EXCEPT !.http = 400, !.err = "Invalid request",
                                  !.found = ~got.err]
          /\ UNCHANGED <<payments, published, nextID, provider>>
     ELSE IF result.err # ""
     THEN /\ resp' = [base EXCEPT !.http = 500, !.err = result.err, !.found = TRUE,
                                  !.read = existingPayment.Status,
                                  !.PaymentID = sreq.PaymentID]
          /\ provider' = s.provider
          /\ UNCHANGED <<payments, published, nextID>>
     ELSE IF result.Status \in {StatusSuccess, StatusPending}
     THEN /\ provider' = s.provider
          /\ payments' = r2.payments
          /\ nextID' = r2.nextID
          /\ IF result.Status # StatusSuccess
             THEN /\ published' = r2.published
                  /\ resp' = [base EXCEPT
                       !.http = 200, !.found = TRUE, !.status = result.Status,
                       !.read = existingPayment.Status,
                       !.PaymentID = sreq.PaymentID,
                       !.events = r1.events \o (IF again THEN r2.events ELSE <<>>)]
             ELSE IF paymentRecord.nil
             THEN \* paymentRecord.PaymentID on a nil record
                  /\ published' = r2.published
                  /\ resp' = [base EXCEPT
                       !.http = 500, !.panic = TRUE, !.found = TRUE,
                       !.status = result.Status, !.read = existingPayment.Status,
                       !.PaymentID = sreq.PaymentID, !.events = r1.events]
             ELSE /\ published' = pub.published
                  /\ resp' = [base EXCEPT
                       !.http = 200, !.found = TRUE, !.status = result.Status,
                       !.read = existingPayment.Status,
                       !.PaymentID = sreq.PaymentID,
                       !.events = r1.events \o (IF again THEN r2.events ELSE <<>>)
                                    \o <<own>>]
     ELSE /\ provider' = s.provider
          /\ published' = PublishPaymentEvent(published, own, env.bus).published
          /\ resp' = [base EXCEPT !.http = 200, !.found = TRUE,
                                  !.status = result.Status,
                                  !.read = existingPayment.Status,
                                  !.PaymentID = sreq.PaymentID,
                                  !.events = <<own>>]
          /\ UNCHANGED <<payments, nextID>>
  /\ UNCHANGED <<locks, ttl, tasks, issuing, holders, verified, consumed, delivered,
                 up, refunding>>

\* ---------------------------------------------------------- specifications
\* The two revisions of internal/services/payment.go are two services: the
\* one of handler_test.go (upsert ProcessPayment, UpdatePaymentStatus,
\* RefundPayment, ProcessOrderEvent) and the one of payment.go (OTP-gated
\* ProcessPayment, processPaymentAsync, VerifyOTP).  Each has its behaviours.
\* Redis, the broker and MySQL fail where the operation under study talks to
\* them.

EnvOK == [db |-> TRUE, redis |-> TRUE, bus |-> TRUE, smtp |-> TRUE]
BusEnvs == [db : {TRUE}, redis : {TRUE}, bus : BOOLEAN, smtp : {TRUE}]
RedisEnvs == [db : {TRUE}, redis : BOOLEAN, bus : {TRUE}, smtp : {TRUE}]
\* every outcome of the store and of the broker
FaultEnvs == [db : BOOLEAN, redis : {TRUE}, bus : BOOLEAN, smtp : {TRUE}]
\* every outcome of the store
StoreEnvs == [db : BOOLEAN, redis : {TRUE}, bus : {TRUE}, smtp : {TRUE}]
\* every outcome of the SMTP server
MailEnvs == [db : {TRUE}, redis : {TRUE}, bus : {TRUE}, smtp : BOOLEAN]

\* the payment lifecycle of the upsert service; ProcessPayment requests are
\* those of one order and carry no URL
Next ==
  \/ \E req \in PaymentRequests, env \in BusEnvs :
       /\ req.OrderID = "o1" /\ req.URL = ""
       /\ ProcessPayment(req, env)
  \/ \E id \in KnownIDs, amount \in RefundAmounts, env \in BusEnvs :
       RefundPayment(id, amount, env)
  \/ \E id \in KnownIDs, status \in PaymentStatus :
       UpdatePaymentStatus(id, status, EnvOK)
  \/ \E order \in Orders, env \in BusEnvs : ProcessOrderEvent(order, env)

Spec == Init /\ [][Next]_vars

\* the order.created consumer wired to ProcessOrderEvent (main.go); the
\* INSERT of a delivery goes through or fails
NextIngest ==
  \E message \in IngestMessages, env \in StoreEnvs : ConsumeClaim(message, env)

SpecIngest == Init /\ [][NextIngest]_vars

\* the OTP-gated service; payments also arrive from the consumer; clients
\* name their payment pay_client or leave the identifier empty
NextOTP ==
  \/ \E req \in IssueRequests, otp \in OTPs :
       /\ req.PaymentID \in {ClientPaymentID, ""}
       /\ ProcessPaymentOTP(req, otp, EnvOK)
  \/ \E payment \in tasks, succeed \in BOOLEAN :
       processPaymentAsync(payment, succeed, EnvOK)
  \/ \E orderID \in OrderIDs, otp \in OTPs \cup {""}, env \in Envs :
       VerifyOTP(orderID, otp, env)
  \/ \E orderID \in OrderIDs : ExpireLock(orderID)
  \/ \E message \in Messages :
       /\ message.kind = "order" /\ ncalls < MaxCalls
       /\ ConsumeClaim(message, EnvOK)

SpecOTP == Init /\ [][NextOTP]_vars

\* overlapping issuing calls
NextLock ==
  \/ \E c \in Callers, req \in IssueRequests, otp \in OTPs :
       /\ req.PaymentID = ClientPaymentID
       /\ BeginProcessPayment(c, req, otp)
  \/ \E c \in Callers, env \in RedisEnvs : FinishProcessPayment(c, env)
  \/ \E orderID \in OrderIDs : ExpireLock(orderID)

SpecLock == Init /\ [][NextLock]_vars

\* ProcessPayment of the upsert service on its own, for every order; the
\* requests explored name pay_client or no payment, ask for no status,
\* success or failed, and supply price and URL or neither; pending rows
\* (and second rows of an order) arrive from the consumer
NextUpsert ==
  \/ \E req \in PaymentRequests :
       /\ ncalls < MaxUpserts
       /\ req.PaymentID \in {"", ClientPaymentID}
       /\ req.Status \in {"", StatusSuccess, StatusFailed}
       /\ (req.Price = 0) = (req.URL = "")
       /\ ProcessPayment(req, EnvOK)
  \/ \E message \in Messages :
       /\ ncalls < MaxUpserts
       /\ message.kind = "order"
       /\ ConsumeClaim(message, EnvOK)

SpecUpsert == Init /\ [][NextUpsert]_vars

\* ProcessPayment of the upsert service for one order, every status, while
\* the store and the broker fail
NextFaults ==
  \E req \in PaymentRequests, env \in FaultEnvs :
    /\ ncalls < MaxUpserts
    /\ req.OrderID = "o1" /\ req.Price > 0 /\ req.URL = ""
    /\ ProcessPayment(req, env)

SpecFaults == Init /\ [][NextFaults]_vars

\* issuance under the clock, VerifyOTP never called
NextTTL ==
  \/ \E req \in IssueRequests, otp \in OTPs, env \in RedisEnvs :
       /\ req.PaymentID \in {ClientPaymentID, ""}
       /\ ProcessPaymentOTP(req, otp, env)
  \/ Tick

SpecTTL == Init /\ [][NextTTL]_vars

\* RefundPayment calls that overlap each other, ProcessPayment for status
\* success and UpdatePaymentStatus, all on the payment pay_client of order o1
NextRace ==
  \/ \E req \in PaymentRequests :
       /\ ncalls < MaxRaces
       /\ req = [PaymentID |-> ClientPaymentID, OrderID |-> "o1",
                 Status |-> StatusSuccess, Price |-> 50, URL |-> ""]
       /\ ProcessPayment(req, EnvOK)
  \/ \E c \in Callers, amount \in {<<>>, <<20>>, <<60>>} :
       BeginRefundPayment(c, ClientPaymentID, amount)
  \/ \E c \in Callers, env \in BusEnvs : FinishRefundPayment(c, env)
  \/ \E status \in PaymentStatus :
       /\ ncalls < MaxRaces
       /\ UpdatePaymentStatus(ClientPaymentID, status, EnvOK)

SpecRace == Init /\ [][NextRace]_vars

\* issuance and VerifyOTP while the store accepts or refuses VerifyOTP's
\* updates
NextVerifyFaults ==
  \/ \E req \in IssueRequests, otp \in OTPs :
       /\ req.PaymentID = ClientPaymentID
       /\ ProcessPaymentOTP(req, otp, EnvOK)
  \/ \E orderID \in OrderIDs, otp \in OTPs, env \in StoreEnvs :
       VerifyOTP(orderID, otp, env)

SpecVerifyFaults == Init /\ [][NextVerifyFaults]_vars

\* issuance and the settlement goroutine it starts.  The goroutine is
\* detached, never looks at ctx and has no blocking step but its Sleep, so
\* the scheduler runs it: weak fairness on its step.
Settle ==
  \E payment \in tasks, succeed \in BOOLEAN, env \in BusEnvs :
    processPaymentAsync(payment, succeed, env)

NextSettle ==
  \/ \E req \in IssueRequests, otp \in OTPs :
       /\ req.PaymentID \in {ClientPaymentID, ""}
       /\ ProcessPaymentOTP(req, otp, EnvOK)
  \/ Settle

SpecSettle == Init /\ [][NextSettle]_vars /\ WF_vars(Settle)

\* issuance while the SMTP server accepts or refuses the mail
NextMail ==
  \/ \E req \in IssueRequests, otp \in OTPs, env \in MailEnvs :
       /\ req.PaymentID \in {ClientPaymentID, ""}
       /\ ProcessPaymentOTP(req, otp, env)
  \/ \E orderID \in OrderIDs : ExpireLock(orderID)

SpecMail == Init /\ [][NextMail]_vars

\* the settlement path: StripeService.ProcessPayment called on its own and
\* through its handler, for order o1, whose pending payment arrives from the
\* consumer; the provider's answers to calls a request cannot lead to are
\* fixed, and so is all but the rejected field of a request the handler rejects
StripeRequests ==
  [PaymentID : {"pay_req"}, OrderID : {"o1", ""}, Amount : {-5, 0, 70},
   Token : {"", "pm_tok"}, Card : BOOLEAN]

QuietAnswers == [pm |-> "ok", pi |-> "succeeded", charge |-> "none"]

Asked(req, prov) ==
  /\ (req.Token # "" \/ ~req.Card) => prov.pm = "ok"
  /\ prov.pm # "ok" => prov.pi = "succeeded"
  /\ (prov.pm # "ok" \/ prov.pi = "api_connection_error") => prov.charge = "none"
  /\ (req.Token = "" /\ ~req.Card) => prov = QuietAnswers

NextStripe ==
  \/ \E message \in Messages :
       /\ ncalls < MaxSettles
       /\ message.kind = "order" /\ message.order.OrderID = "o1"
       /\ ConsumeClaim(message, EnvOK)
  \/ \E req \in StripeRequests, prov \in ProviderAnswers :
       /\ req.OrderID = "o1"
       /\ Asked(req, prov)
       /\ req.Amount <= 0 => prov = QuietAnswers
       /\ StripeServiceProcessPayment(req, prov)
  \/ \E req \in StripeRequests, prov \in ProviderAnswers, env \in BusEnvs :
       /\ req.Amount \in {0, 70}
       /\ Asked(req, prov)
       /\ (req.Amount <= 0 \/ req.OrderID = "") =>
            (prov = QuietAnswers /\ env = EnvOK /\ req.Token # "" /\ ~req.Card)
       /\ StripeHandlerProcessPayment(req, prov, env)

SpecStripe == Init /\ [][NextStripe]_vars

\* Stripe settlement of an ingested order while the store, after the
\* handler's lookup of the order, and the broker answer or fail
NextSettleFaults ==
  \/ \E message \in Messages :
       /\ ncalls < MaxSettles
       /\ message.kind = "order" /\ message.order.OrderID = "o1"
       /\ ConsumeClaim(message, EnvOK)
  \/ \E req \in StripeRequests, prov \in ProviderAnswers, env \in FaultEnvs :
       /\ req.OrderID = "o1" /\ req.Amount = 70
       /\ req.Token # "" /\ ~req.Card
       /\ Asked(req, prov)
       /\ StripeHandlerProcessPayment(req, prov, env)

SpecSettleFaults == Init /\ [][NextSettleFaults]_vars

\* ---------------------------------------------------- producer and wire
\* the event types the services build, and one no service knows
EventTypes ==
  {"payment.created", "payment.success", "payment.failed", "payment.refunded",
   "otp.success", "otp.failed", "payment.unknown"}

PublishEvents == [Type : EventTypes, PaymentID : {ClientPaymentID, GeneratePayID(1)}]

Topics == {"payment-events", "payment-success", "payment-failed", "payment-refunded"}

\* the messages of one topic with one key, in the order the brokers took
\* them: messages of one key go to one partition of their topic, and a
\* partition is the unit Kafka keeps in order
Stream(log, topic, key) ==
  SelectSeq(log, LAMBDA m : m.Topic = topic /\ m.Key = key)

\* Producer.PublishPaymentEvent called with an event
Publish(event, env) ==
  LET r == PublishPaymentEvent(published, event, env.bus)
  IN
  /\ ncalls < MaxPublishes
  /\ ncalls' = ncalls + 1
  /\ published' = r.published
  /\ resp' = [NoResp EXCEPT !.op = "PublishPaymentEvent", !.status = event.Type,
                            !.PaymentID = event.PaymentID, !.env = env,
                            !.ret = ~r.err,
                            !.err = IF r.err THEN "failed to send message" ELSE ""]
  /\ UNCHANGED <<payments, locks, ttl, tasks, nextID, issuing, holders, verified,
                 consumed, delivered, provider, up, refunding>>

\* a consumer of a topic receives the next message of one of its partitions
Consume(topic, key) ==
  LET stream == Stream(published, topic, key)
      got == Len(Stream(delivered, topic, key))
  IN
  /\ got < Len(stream)
  /\ delivered' = Append(delivered, stream[got + 1])
  /\ UNCHANGED <<payments, locks, ttl, published, tasks, nextID, ncalls, resp,
                 issuing, holders, verified, consumed, provider, up, refunding>>

NextProducer ==
  \/ \E event \in PublishEvents, env \in BusEnvs : Publish(event, env)
  \/ \E topic \in Topics, key \in {ClientPaymentID, GeneratePayID(1)} :
       Consume(topic, key)

SpecProducer == Init /\ [][NextProducer]_vars

\* ------------------------------------------------------------- properties
\* a step that completes a service call or a delivery
CallStep == ncalls' = ncalls + 1

\* the row VerifyOTP and handleOTPFail work on
PaymentOf(tbl, orderID) == GetTicketByOrderID(tbl, orderID).payment

\* the event publishPaymentEvent builds
EventOf(eventType, paymentID) == [Type |-> eventType, PaymentID |-> paymentID]

\* the message the brokers store for it
MessageOf(eventType, paymentID) ==
  [Topic |-> getTopicForEvent(eventType), Key |-> paymentID,
   Type |-> eventType, PaymentID |-> paymentID]

\* C1: after every delivery of a well-formed order.created message that the
\* consumer marked, the table holds exactly one row with the order's OrderID
\* (SpecIngest).
C1_OneRowPerIngestedOrder ==
  (resp.op = "ConsumeClaim" /\ resp.status = "order" /\ resp.ret)
    => RowsOfOrder(payments, resp.OrderID) = 1

\* C2: an issuing call acquires the lock exactly when the order's key is
\* absent at its AddOTP and Redis answers; a call that finds the key returns
\* at once with an error, leaving the lock, the stored code and the table
\* alone; so no order ever has two successful acquisitions on one key; and
\* a call that reached AddOTP can always complete, whoever holds the lock
\* (SpecLock, calls overlapping).
C2_OneAcquirerPerOrder ==
  /\ [](\A c \in Callers :
          issuing[c].busy => ENABLED FinishProcessPayment(c, EnvOK))
  /\ [][\A c \in Callers :
       (issuing[c].busy /\ ~issuing'[c].busy) =>
         LET o == issuing[c].OrderID
             held == LockKey(o) \in DOMAIN locks
         IN /\ resp'.ret = (~held /\ resp'.env.redis)
            /\ resp'.ret => /\ locks'[LockKey(o)] = issuing[c].otp
                            /\ holders'[o] = 1
            /\ held => /\ resp'.err \in {"OTP already locked", "redis error"}
                       /\ locks' = locks
                       /\ payments' = payments
                       /\ holders'[o] = 1
            /\ \A q \in OrderIDs : holders'[q] <= 1]_vars


\* two calls for one order started while no lock was held: one acquired, the
\* other has just failed on the held lock
C2_Witness ==
  /\ resp.op = "ProcessPaymentOTP"
  /\ resp.free
  /\ resp.err = "OTP already locked"
  /\ holders[resp.OrderID] = 1
  /\ LockKey(resp.OrderID) \in DOMAIN locks
  /\ locks[LockKey(resp.OrderID)] # resp.otp

\* C3: a VerifyOTP call for an order and a code for which a VerifyOTP call
\* has already completed since the order's last successful issuance returns
\* false (SpecOTP).
C3_SingleUse ==
  [][(CallStep /\ resp'.op = "VerifyOTP"
        /\ <<resp'.OrderID, resp'.otp>> \in verified)
       => ~resp'.ret]_vars

\* C4: RefundPayment on a stored payment whose status is not success returns
\* ErrPaymentNotRefundable, leaves the table as it was and hands no event to
\* the producer (Spec).
C4_NotRefundable ==
  [][(CallStep /\ resp'.op = "RefundPayment"
        /\ ~GetPayment(payments, resp'.PaymentID).err
        /\ GetPayment(payments, resp'.PaymentID).payment.Status # StatusSuccess)
       => /\ resp'.err = ErrPaymentNotRefundable
          /\ payments' = payments
          /\ published' = published
          /\ resp'.events = <<>>]_vars

\* a refund of a refunded payment was rejected
C4_Witness ==
  /\ resp.op = "RefundPayment"
  /\ resp.found
  /\ resp.read = StatusRefunded
  /\ resp.err = ErrPaymentNotRefundable

\* C5: RefundPayment on a success payment: with an amount <= 0 or above the
\* Price it returns ErrInvalidRefundAmount and the table is as it was (status
\* success); with no amount or an amount in (0, Price] it returns no error
\* and the stored status is refunded (Spec).
C5_RefundAmount ==
  [][(CallStep /\ resp'.op = "RefundPayment"
        /\ ~GetPayment(payments, resp'.PaymentID).err
        /\ GetPayment(payments, resp'.PaymentID).payment.Status = StatusSuccess)
       => LET before == GetPayment(payments, resp'.PaymentID).payment
              after == GetPayment(payments', resp'.PaymentID).payment
              amount == resp'.amount
          IN IF amount # <<>> /\ (amount[1] <= 0 \/ amount[1] > before.Price)
             THEN /\ resp'.err = ErrInvalidRefundAmount
                  /\ payments' = payments
                  /\ after.Status = StatusSuccess
             ELSE /\ resp'.err = ""
                  /\ after.Status = StatusRefunded]_vars

\* a refund of more than the price of a success payment was rejected
C5_Witness ==
  /\ resp.op = "RefundPayment"
  /\ resp.read = StatusSuccess
  /\ resp.amount = <<60>>
  /\ resp.err = ErrInvalidRefundAmount
  /\ GetPayment(payments, resp.PaymentID).payment.Status = StatusSuccess

\* C6: when RefundPayment, ProcessPayment or ProcessOrderEvent hands an event
\* to the producer and the broker refuses it, the call returns no error and
\* the stored payment has the status the call set: refunded, the requested
\* status, pending (Spec).
C6_PublishFailureSwallowed ==
  [][(CallStep /\ resp'.events # <<>> /\ ~resp'.env.bus
        /\ resp'.op \in {"RefundPayment", "ProcessPayment", "ProcessOrderEvent"})
       => /\ resp'.err = ""
          /\ published' = published
          /\ ~GetPayment(payments', resp'.PaymentID).err
          /\ GetPayment(payments', resp'.PaymentID).payment.Status =
               (CASE resp'.op = "RefundPayment" -> StatusRefunded
                  [] resp'.op = "ProcessPayment" -> resp'.status
                  [] OTHER -> StatusPending)]_vars

\* a refund went through although the broker refused payment.refunded
C6_Witness ==
  /\ resp.op = "RefundPayment"
  /\ ~resp.env.bus
  /\ resp.events = <<EventOf("payment.refunded", resp.PaymentID)>>
  /\ resp.err = ""
  /\ GetPayment(payments, resp.PaymentID).payment.Status = StatusRefunded
  /\ \A i \in 1..Len(published) : published[i].Type # "payment.refunded"

\* C7: every step changes the status of a stored payment only along
\* pending -> success, pending -> failed or success -> refunded (Spec).
C7_LegalTransitions ==
  [][\A i \in 1..Len(payments) :
       (i <= Len(payments') /\ payments'[i].Status # payments[i].Status)
         => <<payments[i].Status, payments'[i].Status>> \in
              {<<StatusPending, StatusSuccess>>, <<StatusPending, StatusFailed>>,
               <<StatusSuccess, StatusRefunded>>}]_vars

\* C8: VerifyOTP for an order that has a payment, with the code Redis holds
\* for the order, returns true, stores the payment with status success and
\* hands otp.success for it to the producer, which the broker stores unless
\* it refuses the message (SpecOTP).
C8_VerifyMatch ==
  [][(CallStep /\ resp'.op = "VerifyOTP" /\ resp'.env.redis
        /\ ~GetTicketByOrderID(payments, resp'.OrderID).err
        /\ LockKey(resp'.OrderID) \in DOMAIN locks
        /\ locks[LockKey(resp'.OrderID)] = resp'.otp)
       => LET id == PaymentOf(payments, resp'.OrderID).PaymentID
          IN /\ resp'.ret
             /\ GetPayment(payments', id).payment.Status = StatusSuccess
             /\ PaymentOf(payments', resp'.OrderID).Status = StatusSuccess
             /\ resp'.events = <<EventOf("otp.success", id)>>
             /\ published' = IF resp'.env.bus
                              THEN Append(published, MessageOf("otp.success", id))
                              ELSE published]_vars

\* the locked code was presented for a pending payment and accepted
C8_Witness ==
  /\ resp.op = "VerifyOTP"
  /\ resp.ret
  /\ resp.read = StatusPending
  /\ resp.locked = resp.otp
  /\ PaymentOf(payments, resp.OrderID).Status = StatusSuccess
  /\ Len(published) > 0
  /\ published[Len(published)].Type = "otp.success"

\* C9: VerifyOTP for an order that has a payment, when Redis holds no code
\* for the order, or the read of the code fails, or the candidate is not the
\* code held, returns false, leaves the payment stored with status failed
\* and hands otp.failed for it to the producer, which the broker stores
\* unless it refuses the message (SpecOTP).
C9_VerifyFail ==
  [][(CallStep /\ resp'.op = "VerifyOTP"
        /\ ~GetTicketByOrderID(payments, resp'.OrderID).err
        /\ \/ LockKey(resp'.OrderID) \notin DOMAIN locks
           \/ ~resp'.env.redis
           \/ locks[LockKey(resp'.OrderID)] # resp'.otp)
       => LET id == PaymentOf(payments, resp'.OrderID).PaymentID
          IN /\ ~resp'.ret
             /\ GetPayment(payments', id).payment.Status = StatusFailed
             /\ PaymentOf(payments', resp'.OrderID).Status = StatusFailed
             /\ resp'.events = <<EventOf("otp.failed", id)>>
             /\ published' = IF resp'.env.bus
                              THEN Append(published, MessageOf("otp.failed", id))
                              ELSE published]_vars

\* a wrong code was presented while a code was locked, and refused
C9_Witness ==
  /\ resp.op = "VerifyOTP"
  /\ ~resp.ret
  /\ resp.found
  /\ resp.locked # ""
  /\ resp.locked # resp.otp
  /\ PaymentOf(payments, resp.OrderID).Status = StatusFailed
  /\ Len(published) > 0
  /\ published[Len(published)].Type = "otp.failed"

\* C10: a VerifyOTP call for an order that has no payment returns false
\* without panicking (SpecOTP).
C10_FailClosed ==
  (resp.op = "VerifyOTP" /\ ~resp.found) => (~resp.ret /\ ~resp.panic)

\* C11: after a VerifyOTP call returned, Redis holds no key for the call's
\* order (SpecOTP).
C11_LockReleased ==
  (resp.op = "VerifyOTP" /\ ~resp.panic)
    => LockKey(resp.OrderID) \notin DOMAIN locks

\* C12: with VerifyOTP never called, a key AddOTP set is there for lockTTL
\* minutes and gone after them: it starts with lockTTL minutes, loses one
\* each minute, is dropped by Redis when none is left, and nothing else
\* changes it; while it is there every issuance for the order fails and
\* leaves the key and its time alone, and once it is gone an issuance that
\* reaches Redis succeeds (SpecTTL).
C12_LockExpires ==
  /\ [](\A k \in DOMAIN locks : k \in DOMAIN ttl /\ ttl[k] \in 1..lockTTL)
  /\ [][(ncalls' = ncalls) =>
          \A k \in DOMAIN locks :
            IF ttl[k] = 1 THEN k \notin DOMAIN locks'
            ELSE /\ k \in DOMAIN locks'
                 /\ locks'[k] = locks[k]
                 /\ ttl'[k] = ttl[k] - 1]_vars
  /\ [][(CallStep /\ resp'.op = "ProcessPaymentOTP") =>
          LET key == LockKey(resp'.OrderID)
          IN /\ resp'.ret = (resp'.env.redis /\ key \notin DOMAIN locks)
             /\ resp'.ret => (locks'[key] = resp'.otp /\ ttl'[key] = lockTTL)
             /\ ~resp'.ret => (locks' = locks /\ ttl' = ttl)]_vars

\* an order was issued a code, the lock ran out, and a second issuance for
\* the order has just succeeded
C12_Witness ==
  /\ resp.op = "ProcessPaymentOTP"
  /\ resp.ret
  /\ RowsOfOrder(payments, resp.OrderID) = 2
  /\ ttl[LockKey(resp.OrderID)] = lockTTL

C14_PartialUpdate ==
  \A req \in PaymentRequests :
    LET old == Resolve(payments, req)
        r == ProcessPaymentOn(payments, published, nextID, req, EnvOK)
        new == GetPayment(r.payments, old.PaymentID).payment
    IN ~old.nil =>
         /\ req.Status = "" => new.Status = old.Status
         /\ req.Price = 0 => new.Price = old.Price
         /\ req.URL = "" => new.URL = old.URL
         /\ new.PaymentID = old.PaymentID
         /\ new.OrderID = old.OrderID

\* C15: a ProcessPayment call whose store write failed hands no event to the
\* producer and changes neither table nor broker; one whose write went
\* through hands over payment.success if the status now stored is success,
\* payment.failed if it is failed, and nothing otherwise; the broker stores
\* what it was handed unless it refuses (SpecFaults).
C15_EventMatchesStatus ==
  [][(CallStep /\ resp'.op = "ProcessPayment") =>
       /\ (resp'.err # "") = ~resp'.env.db
       /\ IF resp'.err # ""
          THEN /\ resp'.events = <<>>
               /\ published' = published
               /\ payments' = payments
          ELSE LET id == resp'.PaymentID
                   st == GetPayment(payments', id).payment.Status
                   type == IF st = StatusSuccess THEN "payment.success"
                           ELSE IF st = StatusFailed THEN "payment.failed"
                           ELSE ""
               IN /\ resp'.events = IF type = "" THEN <<>>
                                    ELSE <<EventOf(type, id)>>
                  /\ published' = IF type # "" /\ resp'.env.bus
                                  THEN Append(published, MessageOf(type, id))
                                  ELSE published]_vars

\* a request for status failed was stored and payment.failed reached the broker
C15_Witness ==
  /\ resp.op = "ProcessPayment"
  /\ resp.status = StatusFailed
  /\ resp.err = ""
  /\ resp.events = <<EventOf("payment.failed", resp.PaymentID)>>
  /\ GetPayment(payments, resp.PaymentID).payment.Status = StatusFailed
  /\ Len(published) > 0
  /\ published[Len(published)] = MessageOf("payment.failed", resp.PaymentID)

\* C16: in every state and for every request, with the store answering, a
\* ProcessPayment call and the same call again both return no error, work on
\* the same payment, and the second leaves the table as the first left it;
\* after each the payment has the request's status (SpecUpsert).
C16_Repeatable ==
  \A req \in PaymentRequests :
    LET r1 == ProcessPaymentOn(payments, published, nextID, req, EnvOK)
        r2 == ProcessPaymentOn(r1.payments, r1.published, r1.nextID, req, EnvOK)
    IN /\ r1.err = ""
       /\ r2.err = ""
       /\ r2.PaymentID = r1.PaymentID
       /\ r2.payments = r1.payments
       /\ GetPayment(r1.payments, r1.PaymentID).payment.Status = req.Status
       /\ GetPayment(r2.payments, r2.PaymentID).payment.Status = req.Status
       /\ RowsOfOrder(r2.payments, req.OrderID) = RowsOfOrder(r1.payments, req.OrderID)

\* a second call found its payment already in the status it asked for, and
\* the table has the one row the first call made
C16_Witness ==
  /\ resp.op = "ProcessPayment"
  /\ resp.found
  /\ resp.err = ""
  /\ resp.read = resp.status
  /\ resp.status = StatusSuccess
  /\ ncalls = 2
  /\ Len(payments) = 1
  /\ payments[1].Status = StatusSuccess

\* C17: a RefundPayment call on a stored payment of status success, with no
\* amount or an amount in (0, Price], returns no error and the payment with
\* status refunded; the row is that payment, no row is added or otherwise
\* changed; exactly one event, payment.refunded of that PaymentID, is handed
\* to the producer and the broker stores it on payment-refunded unless it
\* refuses (Spec).
C17_RefundSucceeds ==
  [][(CallStep /\ resp'.op = "RefundPayment") =>
       LET id == resp'.PaymentID
           old == GetPayment(payments, id)
           amount == resp'.amount
       IN (/\ ~old.err
           /\ old.payment.Status = StatusSuccess
           /\ amount = <<>> \/ (amount[1] > 0 /\ amount[1] <= old.payment.Price))
          => /\ resp'.err = ""
             /\ resp'.status = StatusRefunded
             /\ Len(payments') = Len(payments)
             /\ \A i \in 1..Len(payments) :
                  payments'[i] = IF payments[i].PaymentID = id
                                 THEN [payments[i] EXCEPT !.Status = StatusRefunded]
                                 ELSE payments[i]
             /\ resp'.events = <<[Type |-> "payment.refunded", PaymentID |-> id]>>
             /\ published' =
                  IF resp'.env.bus
                  THEN Append(published,
                              [Topic |-> "payment-refunded", Key |-> id,
                               Type |-> "payment.refunded", PaymentID |-> id])
                  ELSE published]_vars

\* a partial refund of 20 on a success payment went through and reached the
\* broker
C17_Witness ==
  /\ resp.op = "RefundPayment"
  /\ resp.read = StatusSuccess
  /\ resp.amount = <<20>>
  /\ resp.err = ""
  /\ resp.status = StatusRefunded
  /\ GetPayment(payments, resp.PaymentID).payment.Status = StatusRefunded
  /\ Len(published) > 0
  /\ published[Len(published)].Type = "payment.refunded"
  /\ published[Len(published)].Key = resp.PaymentID

\* C18: a delivery of a message that is not JSON or does not unmarshal into
\* an Order is marked, is not inserted, leaves table and broker as they were,
\* and while the claim has messages the next one, well-formed or not, can be
\* delivered (SpecIngest).
C18_MalformedSkipped ==
  /\ []((resp.op = "ConsumeClaim" /\ resp.status # "order" /\ ncalls < MaxDeliveries)
          => \A message \in IngestMessages : ENABLED ConsumeClaim(message, EnvOK))
  /\ [][(CallStep /\ resp'.status \in {"invalid_json", "not_an_order"}) =>
          /\ resp'.ret
          /\ consumed'[Len(consumed')].marked
          /\ ~consumed'[Len(consumed')].saved
          /\ payments' = payments
          /\ published' = published
          /\ resp'.err = ""]_vars

\* bytes that are not JSON were skipped and the order after them got its row
C18_Witness ==
  /\ Len(consumed) = 2
  /\ consumed[1].kind = "invalid_json"
  /\ consumed[1].marked
  /\ consumed[2].kind = "order"
  /\ consumed[2].saved
  /\ Len(payments) = 1
  /\ payments[1].OrderID = consumed[2].order.OrderID

\* C19: in every state, every well-formed order message delivered so far
\* that was marked, or that precedes a marked message of the claim, has a row
\* with its OrderID in the table (SpecIngest).
C19_AckedIsPersisted ==
  \A i \in 1..Len(consumed) :
    (/\ consumed[i].kind = "order"
     /\ \E j \in i..Len(consumed) : consumed[j].marked)
      => RowsOfOrder(payments, consumed[i].order.OrderID) >= 1

\* C20: a delivery of a well-formed order builds one payment: when the
\* INSERT goes through the table gains exactly that row, with the order's
\* OrderID and Price, status pending, a non-empty PaymentID that is no other
\* row's, and the URL https://payment.gateway.com/checkout/<OrderID>; when
\* it fails the table is as it was (SpecIngest).
C20_PaymentFromOrder ==
  [][(CallStep /\ resp'.op = "ConsumeClaim" /\ resp'.status = "order") =>
       LET taken == consumed'[Len(consumed')]
           order == taken.order
       IN IF resp'.env.db
          THEN /\ taken.saved
               /\ Len(payments') = Len(payments) + 1
               /\ SubSeq(payments', 1, Len(payments)) = payments
               /\ LET row == payments'[Len(payments')]
                  IN /\ row.OrderID = order.OrderID
                     /\ row.Status = "pending"
                     /\ row.Price = order.Price
                     /\ row.PaymentID # ""
                     /\ row.PaymentID = resp'.PaymentID
                     /\ \A i \in 1..Len(payments) :
                          payments[i].PaymentID # row.PaymentID
                     /\ row.URL = "https://payment.gateway.com/checkout/"
                                    \o order.OrderID
          ELSE /\ ~taken.saved
               /\ payments' = payments
               /\ resp'.PaymentID # ""]_vars

\* an order of price 120 for o2 was delivered and its row inserted
C20_Witness ==
  /\ resp.op = "ConsumeClaim"
  /\ resp.ret
  /\ Len(consumed) > 0
  /\ consumed[Len(consumed)].order = [OrderID |-> "o2", Price |-> 120, Status |-> "created"]
  /\ Len(payments) > 0
  /\ payments[Len(payments)].OrderID = "o2"
  /\ payments[Len(payments)].Price = 120
  /\ payments[Len(payments)].URL = "https://payment.gateway.com/checkout/o2"

\* C21: every event the brokers accept is stored once, keyed by its
\* PaymentID, on payment-success if its Type is payment.success, on
\* payment-failed if payment.failed, on payment-refunded if payment.refunded,
\* and on payment-events for every other Type (SpecProducer).
C21_TopicByType ==
  [][(CallStep /\ resp'.op = "PublishPaymentEvent" /\ resp'.ret) =>
       LET type == resp'.status
           m == published'[Len(published')]
       IN /\ published' = Append(published, m)
          /\ m.Type = type
          /\ m.Key = resp'.PaymentID
          /\ type = "payment.success" => m.Topic = "payment-success"
          /\ type = "payment.failed" => m.Topic = "payment-failed"
          /\ type = "payment.refunded" => m.Topic = "payment-refunded"
          /\ type \in {"payment.created", "otp.success", "otp.failed",
                       "payment.unknown"} => m.Topic = "payment-events"]_vars

\* a refund event went to payment-refunded and an OTP event to payment-events
C21_Witness ==
  /\ Len(published) = 2
  /\ published[1].Type = "payment.refunded"
  /\ published[1].Topic = "payment-refunded"
  /\ published[2].Type = "otp.failed"
  /\ published[2].Topic = "payment-events"
  /\ resp.op = "PublishPaymentEvent"

\* C22: in every state and for every PaymentID, the messages with that key
\* the consumers have received are, in the order received, a prefix of the
\* messages with that key in the order the brokers accepted them
\* (SpecProducer).
C22_OneOrderPerPayment ==
  \A id \in {ClientPaymentID, GeneratePayID(1)} :
    LET sent == SelectSeq(published, LAMBDA m : m.Key = id)
        seen == SelectSeq(delivered, LAMBDA m : m.Key = id)
    IN /\ Len(seen) <= Len(sent)
       /\ seen = SubSeq(sent, 1, Len(seen))

\* C23: a call of StripeService.ProcessPayment with an amount <= 0, or with
\* neither token nor card, makes no provider call and returns an error, and
\* every other call makes one; a POST to the handler with neither token nor
\* card is refused without a provider call (SpecStripe).
C23_NoChargeOnInvalidRequest ==
  [][CallStep =>
       LET invalid == resp'.amount[1] <= 0 \/ (resp'.token = "" /\ ~resp'.card)
       IN /\ resp'.op = "StripeService.ProcessPayment" =>
               IF invalid
               THEN provider' = provider /\ resp'.err # "" /\ resp'.status = ""
               ELSE Len(provider') > Len(provider)
          /\ (resp'.op = "StripeHandler.ProcessPayment"
                /\ resp'.token = "" /\ ~resp'.card) =>
               /\ provider' = provider
               /\ resp'.err # ""
               /\ payments' = payments
               /\ published' = published]_vars

\* after a call that charged, a call with amount -5 and a token was refused
\* without a second provider call
C23_Witness ==
  /\ resp.op = "StripeService.ProcessPayment"
  /\ resp.amount = <<-5>>
  /\ resp.token = "pm_tok"
  /\ resp.err = "invalid payment amount"
  /\ ncalls = 2
  /\ provider = <<"PaymentIntents.New">>

\* C24: a settlement the provider answered reports success exactly for the
\* outcome succeeded, pending for processing and requires_action, and failed
\* for every other outcome; through the handler, an outcome of processing or
\* requires_action leaves the order's payment stored as pending and hands no
\* payment.success event to the producer (SpecStripe).
C24_OutcomeToStatus ==
  [][(CallStep
        /\ resp'.op \in {"StripeService.ProcessPayment", "StripeHandler.ProcessPayment"}
        /\ resp'.err = "" /\ ~resp'.panic) =>
       LET outcome == resp'.prov.pi
       IN /\ (resp'.status = "success") = (outcome = "succeeded")
          /\ (resp'.status = "pending") = (outcome \in {"processing", "requires_action"})
          /\ (resp'.status = "failed") =
               (outcome \in {"requires_payment_method", "canceled"})
          /\ (resp'.op = "StripeHandler.ProcessPayment"
                /\ outcome \in {"processing", "requires_action"}) =>
               /\ PaymentOf(payments', resp'.OrderID).Status = "pending"
               /\ \A i \in 1..Len(resp'.events) :
                    resp'.events[i].Type # "payment.success"
               /\ published' = published]_vars

\* the handler settled a pending payment with the outcome requires_action
\* and the payment is stored as pending
C24_Witness ==
  /\ resp.op = "StripeHandler.ProcessPayment"
  /\ resp.prov.pi = "requires_action"
  /\ resp.http = 200
  /\ resp.status = StatusPending
  /\ resp.read = StatusPending
  /\ PaymentOf(payments, resp.OrderID).Status = StatusPending
  /\ published = <<>>

\* C25: when PaymentMethods.New (card path) or PaymentIntents.New returns an
\* error, StripeService.ProcessPayment returns "stripe API error: <cause>";
\* through the handler the answer is 500 with that error, the table is as it
\* was, and no event is handed to the producer or stored by the broker
\* (SpecStripe).
C25_ProviderErrorLeavesPending ==
  [][(CallStep
        /\ resp'.op \in {"StripeService.ProcessPayment", "StripeHandler.ProcessPayment"}
        /\ Len(provider') > Len(provider)
        /\ \/ resp'.token = "" /\ resp'.prov.pm = "card_error"
           \/ resp'.prov.pi = "api_connection_error") =>
       LET cause == IF resp'.token = "" /\ resp'.prov.pm = "card_error"
                    THEN "card_error" ELSE "api_connection_error"
       IN /\ resp'.err = "stripe API error: " \o cause
          /\ resp'.status = ""
          /\ payments' = payments
          /\ published' = published
          /\ resp'.events = <<>>
          /\ resp'.op = "StripeHandler.ProcessPayment" => resp'.http = 500]_vars

\* the handler's PaymentIntents.New failed and the order's payment is still
\* pending
C25_Witness ==
  /\ resp.op = "StripeHandler.ProcessPayment"
  /\ resp.prov.pi = "api_connection_error"
  /\ resp.http = 500
  /\ resp.read = StatusPending
  /\ provider # <<>>
  /\ PaymentOf(payments, resp.OrderID).Status = StatusPending
  /\ published = <<>>

\* C26: after a settlement through the handler that the provider declined
\* (mapped status failed), the order's payment is stored as failed and the
\* one event handed to the producer is payment.failed with that payment's
\* PaymentID (SpecStripe).
C26_DeclinePersisted ==
  (resp.op = "StripeHandler.ProcessPayment" /\ resp.http = 200
     /\ resp.status = StatusFailed) =>
    LET payment == PaymentOf(payments, resp.OrderID)
    IN /\ payment.Status = StatusFailed
       /\ resp.events = <<EventOf("payment.failed", payment.PaymentID)>>

\* C27: in every state, each event the last call handed to the producer
\* announces the status its payment has in the table: pending for
\* payment.created, success for payment.success and otp.success, failed for
\* payment.failed and otp.failed, refunded for payment.refunded (SpecOTP).
C27_EventAfterPersist ==
  \A i \in 1..Len(resp.events) :
    LET event == resp.events[i]
        stored == GetPayment(payments, event.PaymentID)
        announced ==
          CASE event.Type = "payment.created" -> StatusPending
            [] event.Type \in {"payment.success", "otp.success"} -> StatusSuccess
            [] event.Type \in {"payment.failed", "otp.failed"} -> StatusFailed
            [] event.Type = "payment.refunded" -> StatusRefunded
            [] OTHER -> ""
    IN ~stored.err /\ stored.payment.Status = announced

\* C28: in every state, if the last issuing call delivered its code, the
\* call acquired the lock and the code stored under the order's key is the
\* code delivered (SpecTTL).
C28_DeliveredCodeIsLocked ==
  (resp.op = "ProcessPaymentOTP" /\ resp.mailed) =>
    /\ resp.ret
    /\ LockKey(resp.OrderID) \in DOMAIN locks
    /\ locks[LockKey(resp.OrderID)] = resp.otp

\* C29: in every state, if the SMTP server refused the mail of the last
\* issuing call, the service is still running and the call returned without
\* error with the lock acquired whenever the order's key was free (SpecMail).
C29_MailFailureTolerated ==
  (resp.op = "ProcessPaymentOTP" /\ ~resp.env.smtp) =>
    /\ up
    /\ resp.free => /\ resp.ret
                    /\ resp.err = ""
                    /\ LockKey(resp.OrderID) \in DOMAIN locks
                    /\ locks[LockKey(resp.OrderID)] = resp.otp

\* C30: in every state, if the last delivery was a well-formed order whose
\* payment was inserted and is the only payment of its order, the broker
\* (which accepts every publish here) holds a payment.created message keyed
\* by that payment's PaymentID (SpecIngest).
C30_CreatedAnnounced ==
  (/\ resp.op = "ConsumeClaim" /\ resp.status = "order" /\ resp.ret
   /\ RowsOfOrder(payments, resp.OrderID) = 1) =>
    \E i \in 1..Len(published) :
      /\ published[i].Type = "payment.created"
      /\ published[i].Key = PaymentOf(payments, resp.OrderID).PaymentID

\* C31: every UPDATE a RefundPayment call makes finds the payment in status
\* success, the status the call checked, and every change of a stored status
\* is pending -> success, pending -> failed or success -> refunded
\* (SpecRace, calls overlapping).
C31_PreconditionAtWrite ==
  [][\A c \in Callers :
       (refunding[c].busy /\ ~refunding'[c].busy /\ payments' # payments) =>
         /\ GetPayment(payments, refunding[c].payment.PaymentID).payment.Status
              = StatusSuccess
         /\ \A i \in 1..Len(payments) :
              payments'[i].Status # payments[i].Status =>
                <<payments[i].Status, payments'[i].Status>>
                  \in {<<StatusPending, StatusSuccess>>,
                       <<StatusPending, StatusFailed>>,
                       <<StatusSuccess, StatusRefunded>>}]_vars

\* C32: in every state the table holds at most one payment per OrderID,
\* whatever ingestions and ProcessPayment calls for the order have run
\* (SpecUpsert).
C32_OnePaymentPerOrder ==
  \A orderID \in OrderIDs : RowsOfOrder(payments, orderID) <= 1

\* C33: a payment whose settlement goroutine has been started eventually has
\* status success or failed in the table (SpecSettle, the goroutine fair).
C33_LeavesPending ==
  \A id \in {ClientPaymentID} \cup {GeneratePayID(n) : n \in 1..MaxCalls} :
    (\E payment \in tasks : payment.PaymentID = id)
      ~> (GetPayment(payments, id).payment.Status \in {StatusSuccess, StatusFailed})

\* C34: when the settlement goroutine has finished, the one event it handed
\* to the producer is payment.success if it decided success and
\* payment.failed if it decided failed (SpecSettle).
C34_EventMatchesOutcome ==
  resp.op = "processPaymentAsync" =>
    resp.events =
      <<EventOf(IF resp.status = StatusSuccess THEN "payment.success"
                ELSE "payment.failed", resp.PaymentID)>>

\* C35: an issuing call whose AddOTP fails, because Redis does not answer or
\* because the order's key is there, returns an error, and the table and the
\* set of started settlement goroutines are after the call what they were
\* before it (SpecTTL).
C35_NoLockNoPayment ==
  [][(CallStep /\ resp'.op = "ProcessPaymentOTP"
        /\ (~resp'.env.redis \/ LockKey(resp'.OrderID) \in DOMAIN locks)) =>
       /\ resp'.err \in {"redis error", "OTP already locked"}
       /\ ~resp'.ret
       /\ payments' = payments
       /\ tasks' = tasks]_vars

C35_Witness ==
  /\ resp.op = "ProcessPaymentOTP"
  /\ resp.env.redis /\ ~resp.free
  /\ resp.err = "OTP already locked"
  /\ Len(payments) = 1
  /\ \E payment \in tasks : payment.OrderID = resp.OrderID

\* C36: RemoveOTP(orderID) deletes the order's key when the value under it is
\* the orderID and leaves it when the value is anything else; a VerifyOTP
\* call, which ends with RemoveOTP, therefore leaves every key and its code
\* as they were, and a key disappears only in the step in which Redis
\* expires it (SpecOTP).
C36_OnlyExpiryRemoves ==
  /\ [](\A orderID \in OrderIDs, val \in OTPs \cup OrderIDs :
          LET l == LockKey(orderID) :> val
          IN DOMAIN RemoveOTP(l, orderID, TRUE) =
               IF val = orderID THEN {} ELSE {LockKey(orderID)})
  /\ [][/\ (CallStep /\ resp'.op = "VerifyOTP") => locks' = locks
        /\ (\E key \in DOMAIN locks : key \notin DOMAIN locks') =>
             UNCHANGED <<ncalls, resp, payments, published, tasks>>]_vars

C36_Witness ==
  /\ resp.op = "VerifyOTP"
  /\ resp.env.redis /\ resp.ret
  /\ LockKey(resp.OrderID) \in DOMAIN locks
  /\ locks[LockKey(resp.OrderID)] = resp.otp

\* C37: in every state the brokers hold at most one payment.refunded message
\* per payment: at most one RefundPayment call for a payment has written
\* refunded and announced it (SpecRace, calls overlapping).
C37_OneRefundPerPayment ==
  \A id \in {ClientPaymentID} :
    Len(SelectSeq(published,
                  LAMBDA m : m.Type = "payment.refunded" /\ m.Key = id)) <= 1

\* C38: a settlement call the provider approved, answered with 200, has
\* handed exactly one payment.success event to the producer, and it is for
\* the payment of the call (SpecStripe).
C38_OneSuccessEvent ==
  (resp.op = "StripeHandler.ProcessPayment" /\ resp.http = 200
     /\ resp.status = StatusSuccess) =>
    /\ Len(SelectSeq(resp.events, LAMBDA e : e.Type = "payment.success")) = 1
    /\ \A i \in 1..Len(resp.events) :
         resp.events[i].Type = "payment.success" =>
           resp.events[i].PaymentID = resp.PaymentID

\* C39: a settlement call the provider approved while the store refuses the
\* handler's writes is answered with 200, without a panic
\* (SpecSettleFaults).
C39_StoreFailureTolerated ==
  (resp.op = "StripeHandler.ProcessPayment" /\ resp.found
     /\ resp.status = StatusSuccess /\ ~resp.env.db) =>
    (~resp.panic /\ resp.http = 200)

\* C40: after a VerifyOTP call that returned true the order's payment is
\* stored with status success; after a call with the code Redis holds whose
\* update the store refused, the call has returned false, has handed
\* otp.failed and nothing else to the producer, and the order's payment is
\* not stored with status success (SpecVerifyFaults).
C40_TrueOnlyIfWritten ==
  resp.op = "VerifyOTP" =>
    /\ resp.ret => PaymentOf(payments, resp.OrderID).Status = StatusSuccess
    /\ (resp.found /\ resp.locked # "" /\ resp.locked = resp.otp /\ ~resp.env.db) =>
         /\ ~resp.ret
         /\ resp.events = <<EventOf("otp.failed", resp.PaymentID)>>
         /\ PaymentOf(payments, resp.OrderID).Status # StatusSuccess

====
